---- MODULE Spec2Model ----
(***************************************************************************)
(* PicCut: background-bound detection (processor.detect_whitespace), the   *)
(* crop / margin / save step (processor.trim_whitespace) and the batch     *)
(* runner (processor.process_targets).                                     *)
(***************************************************************************)
EXTENDS Integers, Sequences, FiniteSets, TLC

\* ------------------------------------------------------------------ bounds
\* the images under detection have at most this many pixels (so 3x3, 2x4,
\* 1x9, ... are all covered)
MaxPixels == 9

\* default threshold of detect_whitespace, and the one trim_whitespace passes
DefaultThr == 70

\* ------------------------------------------------------------- value sets
ColorTypes == {"white", "black"}
Directions == {"horizontal", "vertical", "both"}
Thresholds == {0, DefaultThr, 255}

\* RGB triples the detection image is built from: a near-white and a
\* near-black colour, each with unequal channels.  At threshold 70 the first
\* is background in white mode only and the second in black mode only; at
\* threshold 0 neither is background in either mode; at 255 both are.
Palette == {<<255, 255, 200>>, <<0, 60, 0>>}

\* An RGB image: size and a pixel access object px[x, y] (0-based).
Pos(w, h) == (0 .. w - 1) \X (0 .. h - 1)
Sizes == {s \in (1 .. MaxPixels) \X (1 .. MaxPixels) : s[1] * s[2] <= MaxPixels}
RGBImages == UNION {[w : {s[1]}, h : {s[2]}, px : [Pos(s[1], s[2]) -> Palette]] :
                      s \in Sizes}

VARIABLES
    img_rgb,      \* detect_whitespace: the RGB image under detection
    color_type,   \* "white" | "black"
    direction,    \* "horizontal" | "vertical" | "both"
    thr,          \* threshold passed to detect_whitespace
    box,          \* the box returned, <<left, right, top, bottom>>
    box2,         \* the box returned for the cropped image
    phase,        \* position in the detect / crop / detect sequence
    orig,         \* trim_whitespace: the image opened from image_path
    keep_margin_percent,
    out_ext,      \* os.path.splitext(output_path)[1].lower()
    saved,        \* the image handed to save(output_path)
    targets,      \* process_targets: the expanded list of source paths
    fate,         \* what trim_whitespace does on each target: "ok" or a failure
    progress_cb,  \* whether a progress callback was passed
    progress,     \* the calls made to progress_cb, as <<done, total>>
    cancelled,    \* what is_cancelled() returns (WorkerThread._cancel)
    cancel_at,    \* when the flag was set: <<callbacks made so far, pc>>
    i,            \* the loop index of enumerate(targets, 1)
    errors,       \* the error list
    processed,    \* the sources trim_whitespace was called on, in order
    result,       \* the list process_targets returned
    pc,           \* process_targets' position
    written,      \* the output paths trim_whitespace has saved to
    queries,      \* the number of calls made to is_cancelled()
    inputs,       \* process_targets: the paths passed in
    fs,           \* the files on disk when the run starts: path -> kind
    threads,      \* MainWindow: the WorkerThreads created; self.worker is the last
    signal_queue, \* finished / error signals emitted and not yet delivered
    btn_start,    \* btn_start.isEnabled()
    btn_cancel,   \* btn_cancel.isEnabled()
    pending_inputs \* whether self.pending_inputs is non-empty

detVars == <<img_rgb, thr, box, box2>>
trimVars == <<orig, keep_margin_percent, out_ext, saved>>
batchVars == <<targets, fate, progress_cb, progress, cancelled, cancel_at, i,
               errors, processed, result, pc, written, queries, inputs, fs>>
vars == <<img_rgb, color_type, direction, thr, box, box2, phase,
          orig, keep_margin_percent, out_ext, saved,
          targets, fate, progress_cb, progress, cancelled, cancel_at, i,
          errors, processed, result, pc, written, queries, inputs, fs,
          threads, signal_queue, btn_start, btn_cancel, pending_inputs>>
guiVars == <<threads, signal_queue, btn_start, btn_cancel, pending_inputs>>

\* ---------------------------------------------------------------- helpers
Max(a, b) == IF a >= b THEN a ELSE b
Min(a, b) == IF a <= b THEN a ELSE b

\* ------------------------------------------------- detect_whitespace.is_bg
is_bg(rgb, ct, t) ==
    IF ct = "black"
    THEN rgb[1] <= t /\ rgb[2] <= t /\ rgb[3] <= t
    ELSE rgb[1] >= 255 - t /\ rgb[2] >= 255 - t /\ rgb[3] >= 255 - t

\* any(not is_bg(px[x,y]) for y in range(h))
col_has_content(img, x, ct, t) ==
    \E y \in 0 .. img.h - 1 : ~is_bg(img.px[<<x, y>>], ct, t)

\* any(not is_bg(px[x,y]) for x in range(w))
row_has_content(img, y, ct, t) ==
    \E x \in 0 .. img.w - 1 : ~is_bg(img.px[<<x, y>>], ct, t)

\* a scan whose result, when no column has content, is the last index visited
RECURSIVE scan_left_last_index(_, _, _, _)
scan_left_last_index(img, x, ct, t) ==
    IF x >= img.w THEN img.w - 1
    ELSE IF col_has_content(img, x, ct, t) THEN x
    ELSE scan_left_last_index(img, x + 1, ct, t)

\* for x in range(w): if any(...): left = x; break      (left starts at 0)
RECURSIVE scan_left(_, _, _, _)
scan_left(img, x, ct, t) ==
    IF x >= img.w THEN 0
    ELSE IF col_has_content(img, x, ct, t) THEN x
    ELSE scan_left(img, x + 1, ct, t)

\* a scan that returns the last content column itself, not one past it
RECURSIVE scan_right_inclusive(_, _, _, _)
scan_right_inclusive(img, x, ct, t) ==
    IF x < 0 THEN img.w
    ELSE IF col_has_content(img, x, ct, t) THEN x
    ELSE scan_right_inclusive(img, x - 1, ct, t)

\* for x in range(w-1,-1,-1): if any(...): right = x+1; break  (starts at w)
RECURSIVE scan_right(_, _, _, _)
scan_right(img, x, ct, t) ==
    IF x < 0 THEN img.w
    ELSE IF col_has_content(img, x, ct, t) THEN x + 1
    ELSE scan_right(img, x - 1, ct, t)

\* for y in range(h): if any(...): top = y; break        (top starts at 0)
RECURSIVE scan_top(_, _, _, _)
scan_top(img, y, ct, t) ==
    IF y >= img.h THEN 0
    ELSE IF row_has_content(img, y, ct, t) THEN y
    ELSE scan_top(img, y + 1, ct, t)

\* for y in range(h-1,-1,-1): if any(...): bottom = y+1; break (starts at h)
RECURSIVE scan_bottom(_, _, _, _)
scan_bottom(img, y, ct, t) ==
    IF y < 0 THEN img.h
    ELSE IF row_has_content(img, y, ct, t) THEN y + 1
    ELSE scan_bottom(img, y - 1, ct, t)

\* a clamp that treats right / bottom as inclusive indices
clamp_box_inclusive(l, r, t, b, w, h) ==
    LET left   == Max(0, Min(l, w - 1))
        right  == Max(left, Min(r, w - 1))
        top    == Max(0, Min(t, h - 1))
        bottom == Max(top, Min(b, h - 1))
    IN  <<left, right, top, bottom>>

\* the final clamping step
clamp_box(l, r, t, b, w, h) ==
    LET left   == Max(0, Min(l, w - 1))
        right  == Max(left + 1, Min(r, w))
        top    == Max(0, Min(t, h - 1))
        bottom == Max(top + 1, Min(b, h))
    IN  <<left, right, top, bottom>>

\* a detector whose scans start from empty sentinels (left = w, right = 0,
\* top = h, bottom = 0), so that an image without content collapses to the
\* 1x1 box the clamp allows
detect_whitespace_collapsing(img, ct, dir, t) ==
    LET w == img.w
        h == img.h
        horiz == dir \in {"horizontal", "both"}
        vert  == dir \in {"vertical", "both"}
        cols  == \E x \in 0 .. w - 1 : col_has_content(img, x, ct, t)
        rows  == \E y \in 0 .. h - 1 : row_has_content(img, y, ct, t)
        left   == IF ~horiz THEN 0 ELSE IF cols THEN scan_left(img, 0, ct, t) ELSE w
        right  == IF ~horiz THEN w ELSE IF cols THEN scan_right(img, w - 1, ct, t) ELSE 0
        top    == IF ~vert THEN 0 ELSE IF rows THEN scan_top(img, 0, ct, t) ELSE h
        bottom == IF ~vert THEN h ELSE IF rows THEN scan_bottom(img, h - 1, ct, t) ELSE 0
    IN  clamp_box(left, right, top, bottom, w, h)

detect_whitespace(img, ct, dir, t) ==
    LET w == img.w
        h == img.h
        horiz == dir \in {"horizontal", "both"}
        vert  == dir \in {"vertical", "both"}
        left   == IF horiz THEN scan_left(img, 0, ct, t) ELSE 0
        right  == IF horiz THEN scan_right(img, w - 1, ct, t) ELSE w
        top    == IF vert THEN scan_top(img, 0, ct, t) ELSE 0
        bottom == IF vert THEN scan_bottom(img, h - 1, ct, t) ELSE h
    IN  clamp_box(left, right, top, bottom, w, h)

\* a crop of the box's size taken at the image origin
crop_at_origin(img, bx) ==
    LET nw == bx[2] - bx[1]
        nh == bx[4] - bx[3]
    IN  [w |-> nw, h |-> nh, px |-> [p \in Pos(nw, nh) |-> img.px[p]]]

\* Image.crop((l, t, r, b)) on an image whose box lies inside it
crop(img, bx) ==
    LET l == bx[1]
        r == bx[2]
        t == bx[3]
        b == bx[4]
    IN  [w |-> r - l, h |-> b - t,
         px |-> [p \in Pos(r - l, b - t) |-> img.px[<<p[1] + l, p[2] + t>>]]]

NoBox == <<-1, -1, -1, -1>>
NoImage == [w |-> 0, h |-> 0]
NotReturned == <<"not returned">>
NeverSet == <<-1, "never">>

\* the window's variables while no window is modelled
GuiIdle ==
    /\ threads = <<>>
    /\ signal_queue = <<>>
    /\ btn_start = TRUE
    /\ btn_cancel = FALSE
    /\ pending_inputs = FALSE

\* the batch runner's variables while only the detector or trimmer runs
BatchIdle ==
    /\ targets = <<>>
    /\ fate = <<>>
    /\ progress_cb = FALSE
    /\ progress = <<>>
    /\ cancelled = FALSE
    /\ cancel_at = NeverSet
    /\ i = 0
    /\ errors = <<>>
    /\ processed = <<>>
    /\ result = NotReturned
    /\ pc = "idle"
    /\ written = {}
    /\ queries = 0
    /\ inputs = <<>>
    /\ fs = <<>>

\* ------------------------------------------------ detection specification
DetectInit ==
    /\ img_rgb \in RGBImages
    /\ color_type \in ColorTypes
    /\ direction \in Directions
    /\ thr \in Thresholds
    /\ box = NoBox
    /\ box2 = NoBox
    /\ phase = "input"
    /\ orig = NoImage
    /\ keep_margin_percent = 0
    /\ out_ext = ""
    /\ saved = NoImage
    /\ BatchIdle
    /\ GuiIdle

Detect ==
    /\ phase = "input"
    /\ box' = detect_whitespace(img_rgb, color_type, direction, thr)
    /\ phase' = "detected"
    /\ UNCHANGED <<img_rgb, color_type, direction, thr, box2, trimVars, batchVars, guiVars>>

Crop ==
    /\ phase = "detected"
    /\ img_rgb' = crop(img_rgb, box)
    /\ phase' = "cropped"
    /\ UNCHANGED <<color_type, direction, thr, box, box2, trimVars, batchVars, guiVars>>

Redetect ==
    /\ phase = "cropped"
    /\ box2' = detect_whitespace(img_rgb, color_type, direction, thr)
    /\ phase' = "redetected"
    /\ UNCHANGED <<img_rgb, color_type, direction, thr, box, trimVars, batchVars, guiVars>>

DetectNext == Detect \/ Crop \/ Redetect

SpecDetect == DetectInit /\ [][DetectNext]_vars

\* ------------------------------------------------------- trim_whitespace
\* the images trim_whitespace opens are at most MaxSide x MaxSide, plus the
\* two 10x10 images of the batch scenario
MaxSide == 2

SUPPORTED_EXTS == {".png", ".jpg", ".jpeg", ".bmp", ".gif", ".tiff", ".webp"}
NoAlphaExts == {".jpg", ".jpeg", ".bmp"}
Margins == {0, 5, 33, 34, 50}

\* RGBA renderings of the pixels of an opened image
White == <<255, 255, 255, 255>>
Black == <<0, 0, 0, 255>>
Clear == <<0, 0, 0, 0>>

\* image modes with their info["transparency"] flag
OpaqueModes == {<<"RGB", FALSE>>, <<"L", FALSE>>, <<"P", FALSE>>}
AlphaModes  == {<<"RGBA", FALSE>>, <<"LA", FALSE>>, <<"P", TRUE>>, <<"RGB", TRUE>>}

\* a paper-coloured image with a rectangle [x0, x1) x [y0, y1) of ink
Rects(W, H) ==
    {<<0, 0, 0, 0>>} \cup
    {q \in (0 .. W) \X (0 .. W) \X (0 .. H) \X (0 .. H) : q[1] < q[2] /\ q[3] < q[4]}
Drawing(W, H, md, paper, ink, q) ==
    [w |-> W, h |-> H, mode |-> md[1], trns |-> md[2],
     px |-> [p \in Pos(W, H) |->
               IF q[1] <= p[1] /\ p[1] < q[2] /\ q[3] <= p[2] /\ p[2] < q[4]
               THEN ink ELSE paper]]
DrawingsOfSize(W, H) ==
    {Drawing(W, H, md, paper, ink, q) :
        md \in OpaqueModes, paper \in {White, Black}, ink \in {White, Black},
        q \in Rects(W, H)}
    \cup
    {Drawing(W, H, md, paper, ink, q) :
        md \in AlphaModes, paper \in {White, Black, Clear},
        ink \in {White, Black, Clear}, q \in Rects(W, H)}

\* a.png: all white, 10x10;  b.png: white 10x10 with a 2x2 black square at (4,4)
ScenarioA == Drawing(10, 10, <<"RGB", FALSE>>, White, Black, <<0, 0, 0, 0>>)
ScenarioB == Drawing(10, 10, <<"RGB", FALSE>>, White, Black, <<4, 6, 4, 6>>)

OpenedImages ==
    UNION {DrawingsOfSize(s[1], s[2]) : s \in (1 .. MaxSide) \X (1 .. MaxSide)}
    \cup {ScenarioA, ScenarioB}

\* _has_alpha: "A" in img.getbands() or "transparency" in img.info
has_alpha_band(mode) == mode \in {"RGBA", "LA"}
has_alpha(img) == has_alpha_band(img.mode) \/ img.trns

rgb_for_detection(img, ct) ==
    LET bg == IF ct = "white" THEN <<255, 255, 255>> ELSE <<0, 0, 0>>
    IN  [w |-> img.w, h |-> img.h,
         px |-> [p \in Pos(img.w, img.h) |->
                   IF has_alpha(img) /\ img.px[p][4] = 0
                   THEN bg
                   ELSE <<img.px[p][1], img.px[p][2], img.px[p][3]>>]]

\* orig.crop((l, t, r, b)): pixels of the box, mode and info kept
crop_image(img, bx) ==
    [w |-> bx[2] - bx[1], h |-> bx[4] - bx[3], mode |-> img.mode, trns |-> img.trns,
     px |-> [p \in Pos(bx[2] - bx[1], bx[4] - bx[3]) |->
               img.px[<<p[1] + bx[1], p[2] + bx[3]>>]]]

\* int(w * keep_margin_percent / 100.0) for w, percent >= 0
margin_px(n, percent) == (n * percent) \div 100

\* the margin branch with the margin taken from the cropped size
add_margin_of_cropped(cropped, w, h, percent) ==
    LET mw == margin_px(cropped.w, percent)
        mh == margin_px(cropped.h, percent)
        nw == cropped.w + 2 * mw
        nh == cropped.h + 2 * mh
        alpha == has_alpha(cropped)
    IN  [w |-> nw, h |-> nh, mode |-> IF alpha THEN "RGBA" ELSE "RGB", trns |-> FALSE,
         px |-> [p \in Pos(nw, nh) |->
                   IF mw <= p[1] /\ p[1] < mw + cropped.w /\ mh <= p[2] /\ p[2] < mh + cropped.h
                   THEN cropped.px[<<p[1] - mw, p[2] - mh>>]
                   ELSE IF alpha THEN Clear ELSE White]]

\* the keep_margin_percent > 0 branch: a transparent RGBA canvas when the
\* cropped image has alpha, else a white RGB canvas; the cropped image is
\* pasted at (mw, mh), through its own alpha when its mode is RGBA
add_margin(cropped, w, h, percent) ==
    LET mw == margin_px(w, percent)
        mh == margin_px(h, percent)
        nw == cropped.w + 2 * mw
        nh == cropped.h + 2 * mh
        alpha == has_alpha(cropped)
        fill == IF alpha THEN Clear ELSE White
    IN  [w |-> nw, h |-> nh, mode |-> IF alpha THEN "RGBA" ELSE "RGB", trns |-> FALSE,
         px |-> [p \in Pos(nw, nh) |->
                   IF mw <= p[1] /\ p[1] < mw + cropped.w /\ mh <= p[2] /\ p[2] < mh + cropped.h
                   THEN LET c == cropped.px[<<p[1] - mw, p[2] - mh>>]
                        IN  IF cropped.mode = "RGBA" /\ c[4] = 0 THEN fill ELSE c
                   ELSE fill]]

\* cropped.convert("RGB"): the alpha band is dropped; info["transparency"]
\* of a mode without alpha band stays in info
convert_rgb(img) ==
    [w |-> img.w, h |-> img.h, mode |-> "RGB",
     trns |-> (img.trns /\ ~has_alpha_band(img.mode)),
     px |-> [p \in Pos(img.w, img.h) |->
               <<img.px[p][1], img.px[p][2], img.px[p][3], 255>>]]

\* the save branch without the conversion for .jpg / .jpeg / .bmp
for_save_as_is(img, ext) == img

\* the image handed to save(): converted to RGB for .jpg / .jpeg / .bmp when
\* it has alpha or a mode other than RGB / L, else as it is
for_save(img, ext) ==
    IF ext \in NoAlphaExts /\ (has_alpha(img) \/ img.mode \notin {"RGB", "L"})
    THEN convert_rgb(img)
    ELSE img

\* --------------------------------------------------- trim specification
TrimInit ==
    /\ orig \in OpenedImages
    /\ keep_margin_percent \in Margins
    /\ out_ext \in SUPPORTED_EXTS
    /\ color_type \in ColorTypes
    /\ direction \in Directions
    /\ thr = DefaultThr
    /\ img_rgb = NoImage
    /\ box = NoBox
    /\ box2 = NoBox
    /\ saved = NoImage
    /\ phase = "opened"
    /\ BatchIdle
    /\ GuiIdle

\* trim_whitespace, from the detection to the save
Trim ==
    /\ phase = "opened"
    /\ LET det == rgb_for_detection(orig, color_type)
           bx  == detect_whitespace(det, color_type, direction, thr)
           cropped == crop_image(orig, bx)
           final == IF keep_margin_percent > 0
                    THEN add_margin(cropped, orig.w, orig.h, keep_margin_percent)
                    ELSE cropped
       IN  /\ img_rgb' = det
           /\ box' = bx
           /\ saved' = for_save(final, out_ext)
    /\ phase' = "saved"
    /\ UNCHANGED <<orig, keep_margin_percent, out_ext, color_type, direction, thr, box2,
                   batchVars, guiVars>>

TrimNext == Trim

SpecTrim == TrimInit /\ [][TrimNext]_vars

\* ------------------------------------------------------- process_targets
\* at most this many targets in a run
MaxTargets == 5

\* the k-th target of a run
PathOf(k) == "in/img" \o ToString(k) \o ".png"
\* what trim_whitespace does on a target: it returns, or Image.open raises,
\* or makedirs / save raises
Fates == {"ok", "decode", "save"}
Description(f) ==
    IF f = "decode" THEN "cannot identify image file" ELSE "Permission denied"

\* f"{src}: {e}"
error_entry(src, e) == src \o ": " \o e

\* ------------------------------------------------------------------ paths
\* a file or directory name is a tuple of characters, a path a tuple of names
RECURSIVE Str(_)
Str(cs) == IF cs = <<>> THEN "" ELSE cs[1] \o Str(Tail(cs))

\* os.path.join(a, b, ...)
RECURSIVE PathStr(_)
PathStr(path) ==
    IF Len(path) = 1 THEN Str(path[1])
    ELSE Str(path[1]) \o "/" \o PathStr(Tail(path))

\* the characters of os.path.join(a, b, ...)
RECURSIVE PathChars(_)
PathChars(path) ==
    IF Len(path) = 1 THEN path[1]
    ELSE path[1] \o <<"/">> \o PathChars(Tail(path))

InDir == <<"i", "n">>
SubDir == <<"s", "u", "b">>
RemakeDir == <<"R", "e", "m", "a", "k", "e">>
ImgName(k) == <<"i", "m", "g", ToString(k), ".", "p", "n", "g">>

\* the files a run may find under the directory in/, in walk order: the files
\* of in/, then those of its subdirectories
CandidateFiles ==
    << <<InDir, <<"a", ".", "p", "n", "g">>>>,
       <<InDir, <<"B", ".", "P", "N", "G">>>>,
       <<InDir, <<"n", "o", "t", "e", "s", ".", "t", "x", "t">>>>,
       <<InDir, <<"p", "n", "g">>>>,
       <<InDir, RemakeDir, <<"a", ".", "p", "n", "g">>>>,
       <<InDir, SubDir, <<"c", ".", "J", "p", "e", "g">>>> >>
CandidateDirs == {<<InDir>>, <<InDir, RemakeDir>>, <<InDir, SubDir>>}

\* every source path of the model, as a tuple of names
KnownPaths ==
    {<<InDir, ImgName(k)>> : k \in 1 .. MaxTargets}
    \cup {CandidateFiles[k] : k \in DOMAIN CandidateFiles}

\* os.path.dirname(src), os.path.basename(src)
split_path(src) == CHOOSE path \in KnownPaths : PathStr(path) = src
dirname(src) == SubSeq(split_path(src), 1, Len(split_path(src)) - 1)
basename(src) == split_path(src)[Len(split_path(src))]

\* out = os.path.join(os.path.dirname(src), "Remake", os.path.basename(src))
out_path(src) == PathStr(dirname(src) \o <<RemakeDir, basename(src)>>)

\* the variables of the detector and trimmer while the batch runner runs
SingleIdle ==
    /\ img_rgb = NoImage
    /\ color_type = "white"
    /\ direction = "both"
    /\ thr = DefaultThr
    /\ box = NoBox
    /\ box2 = NoBox
    /\ phase = "idle"
    /\ orig = NoImage
    /\ keep_margin_percent = 0
    /\ out_ext = ""
    /\ saved = NoImage
singleVars == <<img_rgb, color_type, direction, thr, box, box2, phase,
                orig, keep_margin_percent, out_ext, saved>>

\* process_targets is entered with the targets expanded
BatchInit ==
    /\ SingleIdle
    /\ GuiIdle
    /\ \E n \in 0 .. MaxTargets :
         /\ targets = [k \in 1 .. n |-> PathOf(k)]
         /\ fate \in [1 .. n -> Fates]
    /\ progress_cb \in BOOLEAN
    /\ progress = <<>>
    /\ cancelled = FALSE
    /\ cancel_at = NeverSet
    /\ i = 0
    /\ errors = <<>>
    /\ processed = <<>>
    /\ result = NotReturned
    /\ pc = "start"
    /\ written = {}
    /\ queries = 0
    /\ inputs = targets
    /\ fs = [p \in {targets[k] : k \in DOMAIN targets} |->
                fate[CHOOSE k \in DOMAIN targets : targets[k] = p]]

\* what the loop never assigns
runVars == <<inputs, fs>>

\* total = len(targets); if progress_cb: progress_cb(0, total); errors = []
Start ==
    /\ pc = "start"
    /\ progress' = IF progress_cb THEN <<<<0, Len(targets)>>>> ELSE progress
    /\ errors' = <<>>
    /\ pc' = "loop"
    /\ UNCHANGED <<targets, fate, progress_cb, cancelled, cancel_at, i, processed,
                   result, written, queries, runVars,
                   singleVars, guiVars>>

\* the loop head takes the next target whatever is_cancelled() says
NextFile_Unchecked ==
    /\ pc = "loop"
    /\ i < Len(targets)
    /\ i' = i + 1
    /\ pc' = "trim"
    /\ queries' = queries + 1
    /\ UNCHANGED <<targets, fate, progress_cb, progress, cancelled, cancel_at, errors,
                   processed, result, written, runVars,
                   singleVars, guiVars>>

\* for i, src in enumerate(targets, 1): is_cancelled() is false
NextFile ==
    /\ pc = "loop"
    /\ i < Len(targets)
    /\ ~cancelled
    /\ i' = i + 1
    /\ pc' = "trim"
    /\ queries' = queries + 1
    /\ UNCHANGED <<targets, fate, progress_cb, progress, cancelled, cancel_at, errors,
                   processed, result, written, runVars,
                   singleVars, guiVars>>

\* for i, src in enumerate(targets, 1): is_cancelled() is true: break, return
NextFileCancelled ==
    /\ pc = "loop"
    /\ i < Len(targets)
    /\ cancelled
    /\ result' = errors
    /\ pc' = "returned"
    /\ queries' = queries + 1
    /\ UNCHANGED <<targets, fate, progress_cb, progress, cancelled, cancel_at, i, errors,
                   processed, written, runVars,
                   singleVars, guiVars>>

\* the loop is exhausted: return errors
LoopDone ==
    /\ pc = "loop"
    /\ i = Len(targets)
    /\ result' = errors
    /\ pc' = "returned"
    /\ UNCHANGED <<targets, fate, progress_cb, progress, cancelled, cancel_at, i, errors,
                   processed, written, queries, runVars,
                   singleVars, guiVars>>

\* try: trim_whitespace(src, out, ...) returns, having saved to out (a target
\* lying at out, reached later, is then read as the image just saved)
TrimOk ==
    /\ pc = "trim"
    /\ fate[i] = "ok"
    /\ processed' = Append(processed, targets[i])
    /\ written' = written \cup {out_path(targets[i])}
    /\ fate' = [k \in DOMAIN fate |->
                  IF targets[k] = out_path(targets[i]) /\ fate[k] = "decode"
                  THEN "ok" ELSE fate[k]]
    /\ pc' = "report"
    /\ UNCHANGED <<targets, progress_cb, progress, cancelled, cancel_at, i, errors,
                   result, queries, runVars, singleVars, guiVars>>

\* a failure that leaves the loop without reporting the file's progress
TrimFails_SkipsReport ==
    /\ pc = "trim"
    /\ fate[i] # "ok"
    /\ processed' = Append(processed, targets[i])
    /\ errors' = Append(errors, error_entry(targets[i], Description(fate[i])))
    /\ pc' = "loop"
    /\ UNCHANGED <<targets, fate, progress_cb, progress, cancelled, cancel_at, i,
                   result, written, queries, runVars,
                   singleVars, guiVars>>

\* a failure that is recorded and ends the run
TrimFails_Aborts ==
    /\ pc = "trim"
    /\ fate[i] # "ok"
    /\ processed' = Append(processed, targets[i])
    /\ errors' = Append(errors, error_entry(targets[i], Description(fate[i])))
    /\ result' = errors'
    /\ pc' = "returned"
    /\ UNCHANGED <<targets, fate, progress_cb, progress, cancelled, cancel_at, i,
                   written, queries, runVars,
                   singleVars, guiVars>>

\* try: trim_whitespace raises; except Exception as e: errors.append(...)
TrimFails ==
    /\ pc = "trim"
    /\ fate[i] # "ok"
    /\ processed' = Append(processed, targets[i])
    /\ errors' = Append(errors, error_entry(targets[i], Description(fate[i])))
    /\ pc' = "report"
    /\ UNCHANGED <<targets, fate, progress_cb, progress, cancelled, cancel_at, i,
                   result, written, queries, runVars,
                   singleVars, guiVars>>

\* if progress_cb: progress_cb(i, total)
Report ==
    /\ pc = "report"
    /\ progress' = IF progress_cb THEN Append(progress, <<i, Len(targets)>>) ELSE progress
    /\ pc' = "loop"
    /\ UNCHANGED <<targets, fate, progress_cb, cancelled, cancel_at, i, errors,
                   processed, result, written, queries, runVars,
                   singleVars, guiVars>>

\* WorkerThread.cancel(), from the caller's thread, at any moment of the run
Cancel ==
    /\ pc \in {"start", "loop", "trim", "report"}
    /\ ~cancelled
    /\ cancelled' = TRUE
    /\ cancel_at' = <<Len(progress), pc>>
    /\ UNCHANGED <<targets, fate, progress_cb, progress, i, errors, processed, result,
                   pc, written, queries, runVars,
                   singleVars, guiVars>>

BatchNext ==
    \/ Start
    \/ NextFile
    \/ NextFileCancelled
    \/ LoopDone
    \/ TrimOk
    \/ TrimFails
    \/ Report
    \/ Cancel

SpecBatch == BatchInit /\ [][BatchNext]_vars

\* ------------------------------------------- process_targets: expansion
UpperCase == <<"A", "B", "C", "D", "E", "F", "G", "H", "I", "J", "K", "L", "M",
               "N", "O", "P", "Q", "R", "S", "T", "U", "V", "W", "X", "Y", "Z">>
LowerCase == <<"a", "b", "c", "d", "e", "f", "g", "h", "i", "j", "k", "l", "m",
               "n", "o", "p", "q", "r", "s", "t", "u", "v", "w", "x", "y", "z">>

\* str.lower(), character by character
lower_char(c) ==
    IF \E k \in DOMAIN UpperCase : UpperCase[k] = c
    THEN LowerCase[CHOOSE k \in DOMAIN UpperCase : UpperCase[k] = c]
    ELSE c
lower(cs) == [k \in 1 .. Len(cs) |-> lower_char(cs[k])]

\* str.endswith(suffix)
endswith(cs, suffix) ==
    /\ Len(cs) >= Len(suffix)
    /\ SubSeq(cs, Len(cs) - Len(suffix) + 1, Len(cs)) = suffix

\* SUPPORTED_EXTS, as characters
SupportedExtChars ==
    {<<".", "p", "n", "g">>, <<".", "j", "p", "g">>, <<".", "j", "p", "e", "g">>,
     <<".", "b", "m", "p">>, <<".", "g", "i", "f">>, <<".", "t", "i", "f", "f">>,
     <<".", "w", "e", "b", "p">>}

\* the extension test without lower()
has_supported_ext_case_sensitive(cs) ==
    \E e \in SupportedExtChars : endswith(cs, e)

\* f.lower().endswith(SUPPORTED_EXTS)
has_supported_ext(cs) ==
    \E e \in SupportedExtChars : endswith(lower(cs), e)

\* the kinds of a candidate file: not there, a readable image, or a file
\* Image.open cannot decode
FileKinds == {"absent", "ok", "decode"}
CandidateStrs == {PathStr(CandidateFiles[k]) : k \in DOMAIN CandidateFiles}

\* os.path.isdir(p), os.path.isfile(p)
isdir(disk, p) == \E d \in CandidateDirs : PathStr(d) = p
isfile(disk, p) == p \in DOMAIN disk /\ disk[p] # "absent"

\* d is the directory holding path, or one of its ancestors
Under(d, path) == Len(path) > Len(d) /\ SubSeq(path, 1, Len(d)) = d

\* collect_dir(d): os.walk(d) top-down, every file whose name passes the
\* extension test, as os.path.join(root, f)
RECURSIVE walk_from(_, _, _)
walk_from(disk, d, k) ==
    IF k > Len(CandidateFiles) THEN <<>>
    ELSE LET path == CandidateFiles[k]
         IN  IF /\ Under(d, path)
                /\ isfile(disk, PathStr(path))
                /\ has_supported_ext(path[Len(path)])
             THEN <<PathStr(path)>> \o walk_from(disk, d, k + 1)
             ELSE walk_from(disk, d, k + 1)
collect_dir(disk, p) ==
    walk_from(disk, CHOOSE d \in CandidateDirs : PathStr(d) = p, 1)

\* for p in inputs: a directory is walked, a file is kept when its path passes
\* the extension test, anything else is skipped
RECURSIVE expand(_, _)
expand(disk, ins) ==
    IF ins = <<>> THEN <<>>
    ELSE LET p == Head(ins)
             found == IF isdir(disk, p) THEN collect_dir(disk, p)
                      ELSE IF isfile(disk, p)
                              /\ has_supported_ext(PathChars(split_path(p)))
                           THEN <<p>>
                           ELSE <<>>
         IN  found \o expand(disk, Tail(ins))

\* the argument lists of the runs: a directory tree, a subdirectory and a
\* file, files given one by one, a directory together with a file inside it
InputChoices ==
    { <<PathStr(<<InDir>>)>>,
      <<PathStr(<<InDir, SubDir>>), PathStr(CandidateFiles[1])>>,
      <<PathStr(CandidateFiles[3]), PathStr(CandidateFiles[2]), PathStr(CandidateFiles[4])>>,
      <<PathStr(<<InDir>>), PathStr(CandidateFiles[1])>> }

\* process_targets is called
RunInit ==
    /\ SingleIdle
    /\ GuiIdle
    /\ inputs \in InputChoices
    /\ fs \in [CandidateStrs -> FileKinds]
    /\ targets = <<>>
    /\ fate = <<>>
    /\ progress_cb \in BOOLEAN
    /\ progress = <<>>
    /\ cancelled = FALSE
    /\ cancel_at = NeverSet
    /\ i = 0
    /\ errors = <<>>
    /\ processed = <<>>
    /\ result = NotReturned
    /\ pc = "expand"
    /\ written = {}
    /\ queries = 0

\* targets = []; for p in inputs: ...
Expand ==
    /\ pc = "expand"
    /\ targets' = expand(fs, inputs)
    /\ fate' = [k \in 1 .. Len(targets') |-> fs[targets'[k]]]
    /\ pc' = "start"
    /\ UNCHANGED <<progress_cb, progress, cancelled, cancel_at, i, errors, processed,
                   result, written, queries, runVars, singleVars, guiVars>>

RunNext ==
    \/ Expand
    \/ BatchNext

SpecRun == RunInit /\ [][RunNext]_vars

\* ------------------------------------------------------ gui.py: MainWindow
\* the number of WorkerThreads a window creates in the runs explored
MaxWorkers == 3

\* WorkerThread.__init__: _cancel = False; at is the position of the thread:
\* "run" inside run(), "emitted" once run() has emitted finished or error and
\* has not returned yet, "exited" after run() returned
NewThread == [cancel |-> FALSE, at |-> "run"]

\* QThread.isRunning()
isRunning(t) == threads[t].at \in {"run", "emitted"}

\* MainWindow.__init__: no worker, btn_cancel disabled, no pending inputs
GuiInit ==
    /\ SingleIdle
    /\ BatchIdle
    /\ threads = <<>>
    /\ signal_queue = <<>>
    /\ btn_start = TRUE
    /\ btn_cancel = FALSE
    /\ pending_inputs = FALSE

\* _start_worker(inputs): a warning and nothing else while self.worker runs;
\* else a new WorkerThread is created and started, cancel enabled, start
\* disabled
start_worker ==
    IF threads # <<>> /\ isRunning(Len(threads))
    THEN UNCHANGED <<threads, btn_start, btn_cancel>>
    ELSE /\ Len(threads) < MaxWorkers
         /\ threads' = Append(threads, NewThread)
         /\ btn_cancel' = TRUE
         /\ btn_start' = FALSE

\* _pick_files / _pick_dir with a non-empty choice
pick_files ==
    /\ pending_inputs' = TRUE
    /\ UNCHANGED <<threads, signal_queue, btn_start, btn_cancel, batchVars, singleVars>>

\* btn_start clicked: _start_from_pending
start_from_pending ==
    /\ btn_start
    /\ IF ~pending_inputs
       THEN UNCHANGED <<threads, btn_start, btn_cancel>>
       ELSE start_worker
    /\ UNCHANGED <<pending_inputs, signal_queue, batchVars, singleVars>>

\* dropEvent with a non-empty list of paths
dropEvent ==
    /\ pending_inputs' = TRUE
    /\ start_worker
    /\ UNCHANGED <<signal_queue, batchVars, singleVars>>

\* btn_cancel clicked: _cancel_worker
cancel_worker ==
    /\ btn_cancel
    /\ IF threads # <<>> /\ isRunning(Len(threads))
       THEN threads' = [threads EXCEPT ![Len(threads)].cancel = TRUE]
       ELSE UNCHANGED threads
    /\ UNCHANGED <<signal_queue, btn_start, btn_cancel, pending_inputs, batchVars, singleVars>>

\* WorkerThread.run: process_targets returned or raised; the signal is queued
\* for the window's thread
run_emit(t) ==
    /\ threads[t].at = "run"
    /\ \E sig \in {"finished", "error"} :
           signal_queue' = Append(signal_queue, <<t, sig>>)
    /\ threads' = [threads EXCEPT ![t].at = "emitted"]
    /\ UNCHANGED <<btn_start, btn_cancel, pending_inputs, batchVars, singleVars>>

\* WorkerThread.run returns: the thread is no longer running
run_return(t) ==
    /\ threads[t].at = "emitted"
    /\ threads' = [threads EXCEPT ![t].at = "exited"]
    /\ UNCHANGED <<signal_queue, btn_start, btn_cancel, pending_inputs, batchVars, singleVars>>

\* the window's event loop delivers the oldest queued finished signal
on_finished ==
    /\ signal_queue # <<>>
    /\ Head(signal_queue)[2] = "finished"
    /\ signal_queue' = Tail(signal_queue)
    /\ btn_cancel' = FALSE
    /\ btn_start' = TRUE
    /\ UNCHANGED <<threads, pending_inputs, batchVars, singleVars>>

\* the window's event loop delivers the oldest queued error signal
on_error ==
    /\ signal_queue # <<>>
    /\ Head(signal_queue)[2] = "error"
    /\ signal_queue' = Tail(signal_queue)
    /\ btn_cancel' = FALSE
    /\ btn_start' = TRUE
    /\ UNCHANGED <<threads, pending_inputs, batchVars, singleVars>>

GuiNext ==
    \/ pick_files
    \/ start_from_pending
    \/ dropEvent
    \/ cancel_worker
    \/ \E t \in DOMAIN threads : run_emit(t)
    \/ \E t \in DOMAIN threads : run_return(t)
    \/ on_finished
    \/ on_error

SpecGui == GuiInit /\ [][GuiNext]_vars

\* ------------------------------------------------ claims on the detector
\* the pixels of img that are not background
Content(img, ct, t) == {p \in Pos(img.w, img.h) : ~is_bg(img.px[p], ct, t)}
SetMin(S) == CHOOSE m \in S : \A n \in S : m <= n
SetMax(S) == CHOOSE m \in S : \A n \in S : m >= n
InScopeH == direction \in {"horizontal", "both"}
InScopeV == direction \in {"vertical", "both"}

\* C1: for every image of width >= 1 and height >= 1, every pixel content,
\* colour mode, axis mode and threshold, the box detect_whitespace returns
\* satisfies 0 <= left < right <= width and 0 <= top < bottom <= height.
C1_BoxInvariant ==
    phase = "detected" =>
        /\ 0 <= box[1] /\ box[1] < box[2] /\ box[2] <= img_rgb.w
        /\ 0 <= box[3] /\ box[3] < box[4] /\ box[4] <= img_rgb.h

\* C1 witness: a fully uniform background image, wider than one pixel,
\* scanned on both axes, has been given a box.
C1_Witness ==
    /\ phase = "detected"
    /\ direction = "both"
    /\ img_rgb.w >= 2 /\ img_rgb.h >= 2
    /\ \A p \in Pos(img_rgb.w, img_rgb.h) : img_rgb.px[p] = img_rgb.px[<<0, 0>>]
    /\ Content(img_rgb, color_type, thr) = {}

\* C2: when the image has a non-background pixel, each axis in scope gets
\* left/top = the smallest column/row holding a non-background pixel and
\* right/bottom = the largest such index + 1; an axis not in scope gets
\* (0, width) resp. (0, height); a single non-background pixel (x0, y0)
\* under "both" gives exactly (x0, x0+1, y0, y0+1).
C2_TightBounds ==
    LET C  == Content(img_rgb, color_type, thr)
        xs == {p[1] : p \in C}
        ys == {p[2] : p \in C}
    IN  (phase = "detected" /\ C # {}) =>
            /\ box[1] = (IF InScopeH THEN SetMin(xs) ELSE 0)
            /\ box[2] = (IF InScopeH THEN SetMax(xs) + 1 ELSE img_rgb.w)
            /\ box[3] = (IF InScopeV THEN SetMin(ys) ELSE 0)
            /\ box[4] = (IF InScopeV THEN SetMax(ys) + 1 ELSE img_rgb.h)
            /\ (direction = "both" /\ Cardinality(C) = 1) =>
                   \A p \in C : box = <<p[1], p[1] + 1, p[2], p[2] + 1>>

\* C2 witness: a single non-background pixel strictly inside a 3x3 image,
\* both axes scanned.
C2_Witness ==
    /\ phase = "detected"
    /\ direction = "both"
    /\ img_rgb.w = 3 /\ img_rgb.h = 3
    /\ Content(img_rgb, color_type, thr) = {<<1, 1>>}
    /\ box = <<1, 2, 1, 2>>

\* C3: for an image whose every pixel is background under the chosen colour
\* mode and threshold, the box spans the whole image: left = 0,
\* right = width, top = 0, bottom = height.
C3_AllBackgroundKeepsImage ==
    (phase = "detected" /\ Content(img_rgb, color_type, thr) = {}) =>
        box = <<0, img_rgb.w, 0, img_rgb.h>>

\* C3 witness: an all-background image (of two different colours, both
\* within the threshold) larger than 1x1 has been scanned on both axes.
C3_Witness ==
    /\ phase = "detected"
    /\ direction = "both"
    /\ img_rgb.w = 3 /\ img_rgb.h = 2
    /\ Content(img_rgb, color_type, thr) = {}
    /\ \E p, q \in Pos(img_rgb.w, img_rgb.h) : img_rgb.px[p] # img_rgb.px[q]
    /\ box = <<0, 3, 0, 2>>

\* C5: once an image is cropped to the box detect_whitespace returned,
\* detecting again with the same colour mode, axis mode and threshold
\* returns the whole cropped image (0, w', 0, h').
C5_SecondDetectIsFull ==
    phase = "redetected" => box2 = <<0, img_rgb.w, 0, img_rgb.h>>

\* C5 witness: the first detection trimmed something on every side, and the
\* detection on the cropped image has run.
C5_Witness ==
    /\ phase = "redetected"
    /\ direction = "both"
    /\ box[1] > 0 /\ box[3] > 0
    /\ box[2] - box[1] = img_rgb.w /\ box[4] - box[3] = img_rgb.h
    /\ img_rgb.w = 1 /\ img_rgb.h = 1

\* -------------------------------------------------- claims on the trimmer
\* the batch scenario of a.png: axis both, colour mode white, margin 0
ScenarioARun ==
    /\ phase = "saved"
    /\ orig = ScenarioA
    /\ out_ext = ".png"
    /\ direction = "both"
    /\ color_type = "white"
    /\ keep_margin_percent = 0

\* C4 as stated: with axis both, colour mode white, threshold 70 and margin 0,
\* the all-white 10x10 a.png is written as a minimal 1x1 region.
C4_Original == ScenarioARun => (saved.w = 1 /\ saved.h = 1)

\* C4 as amended: with axis both, colour mode white, threshold 70 and margin 0,
\* the all-white 10x10 a.png is written whole: the box is (0, 10, 0, 10) and
\* the output is 10x10.
C4_AllWhiteKeptWhole ==
    ScenarioARun => (box = <<0, 10, 0, 10>> /\ saved.w = 10 /\ saved.h = 10)

\* C4 witness: the scenario has run with the default threshold and a.png's
\* output holds all of its 100 white pixels.
C4_Witness ==
    /\ ScenarioARun
    /\ thr = 70
    /\ \A p \in Pos(10, 10) : saved.px[p] = White

\* C6: for every margin percent m and every W x H image with detected box
\* (l, r, t, b), the saved image is (r-l) + 2*floor(W*m/100) wide and
\* (b-t) + 2*floor(H*m/100) high, the margin coming from the original W and H;
\* for m = 0 it is exactly (r-l) by (b-t).
C6_MarginSize ==
    phase = "saved" =>
        /\ box = detect_whitespace(rgb_for_detection(orig, color_type),
                                   color_type, direction, DefaultThr)
        /\ saved.w = (box[2] - box[1]) + 2 * ((orig.w * keep_margin_percent) \div 100)
        /\ saved.h = (box[4] - box[3]) + 2 * ((orig.h * keep_margin_percent) \div 100)
        /\ keep_margin_percent = 0 =>
               (saved.w = box[2] - box[1] /\ saved.h = box[4] - box[3])

\* C6 witness: b.png (10x10, content 2x2) saved with a 33 percent margin is
\* 2 + 2*3 = 8 pixels on each side.
C6_Witness ==
    /\ phase = "saved"
    /\ orig = ScenarioB
    /\ direction = "both"
    /\ color_type = "white"
    /\ keep_margin_percent = 33
    /\ box = <<4, 6, 4, 6>>
    /\ saved.w = 8 /\ saved.h = 8

\* C7: for every input image with transparency (an alpha band or palette
\* transparency) and every margin percent, the image written still carries
\* transparency (and the alpha of every content pixel) when the output
\* extension is .png/.webp/.gif/.tiff, and is in an opaque mode without alpha
\* band when the extension is .jpg/.jpeg/.bmp.
C7_AlphaByExtension ==
    (phase = "saved" /\ has_alpha(orig)) =>
        LET mw == (saved.w - (box[2] - box[1])) \div 2
            mh == (saved.h - (box[4] - box[3])) \div 2
            inner == Pos(box[2] - box[1], box[4] - box[3])
        IN  /\ out_ext \in {".png", ".webp", ".gif", ".tiff"} =>
                /\ has_alpha(saved)
                /\ \A p \in inner :
                       saved.px[<<p[1] + mw, p[2] + mh>>][4]
                           = orig.px[<<p[1] + box[1], p[2] + box[3]>>][4]
            /\ out_ext \in {".jpg", ".jpeg", ".bmp"} =>
                /\ ~has_alpha_band(saved.mode)
                /\ \A p \in Pos(saved.w, saved.h) : saved.px[p][4] = 255

\* C7 witness: an RGBA image with a transparent pixel kept inside the box
\* has been written with a margin under an alpha-capable extension.
C7_Witness ==
    /\ phase = "saved"
    /\ orig.mode = "RGBA"
    /\ out_ext = ".webp"
    /\ keep_margin_percent = 50
    /\ saved.w > orig.w
    /\ \E p \in Pos(box[2] - box[1], box[4] - box[3]) :
           orig.px[<<p[1] + box[1], p[2] + box[3]>>][4] = 0

\* --------------------------------------------- claims on the batch runner
\* the error entries of the failing targets among the first n, in order
RECURSIVE FailuresUpTo(_)
FailuresUpTo(n) ==
    IF n = 0 THEN <<>>
    ELSE IF fate[n] = "ok" THEN FailuresUpTo(n - 1)
    ELSE Append(FailuresUpTo(n - 1), targets[n] \o ": " \o Description(fate[n]))

\* C8: with a progress callback, the calls are (0, total) before any file is
\* processed, then exactly one call (i, total) after the i-th file whether it
\* succeeded or failed: done runs 0, 1, 2, ... in steps of 1, never exceeds
\* total, and total is the same in every call.
C8_ProgressSequence ==
    (progress_cb /\ pc # "idle") =>
        /\ pc = "start" => (progress = <<>> /\ processed = <<>>)
        /\ pc # "start" =>
               /\ Len(progress) >= 1
               /\ progress[1] = <<0, Len(targets)>>
               /\ Len(progress) = Len(processed) + (IF pc = "report" THEN 0 ELSE 1)
        /\ \A k \in 1 .. Len(progress) :
               /\ progress[k] = <<k - 1, Len(targets)>>
               /\ progress[k][1] <= Len(targets)

\* C8 witness: a finished run over three targets, one of which failed, made
\* the four calls (0,3), (1,3), (2,3), (3,3).
C8_Witness ==
    /\ pc = "returned"
    /\ progress_cb
    /\ Len(targets) = 3
    /\ fate[2] # "ok" /\ fate[3] = "ok"
    /\ progress = <<<<0, 3>>, <<1, 3>>, <<2, 3>>, <<3, 3>>>>

\* a finished run over 5 targets in which the cancellation flag became true
\* right after the k-th progress callback returned
CancelledAfterCallback(k) ==
    /\ pc = "returned"
    /\ progress_cb
    /\ Len(targets) = 5
    /\ cancel_at = <<k, "loop">>

\* C9 as stated: with 5 targets and the flag becoming true after the 2nd
\* progress callback, exactly 2 files are processed and the errors of those 2
\* are returned.
C9_Original ==
    CancelledAfterCallback(2) =>
        (Len(processed) = 2 /\ result = FailuresUpTo(2))

\* C9 as amended: with 5 targets, a flag that becomes true after the callback
\* reporting done = 2 (the 3rd callback, the 1st being (0, total)) stops the
\* run after exactly 2 files and the errors of those 2 are returned; a flag
\* that becomes true after the 2nd callback, (1, total), stops it after
\* exactly 1 file, with the errors of that file returned.
C9_CancelStopsAfterReportedFiles ==
    /\ CancelledAfterCallback(3) =>
           /\ processed = SubSeq(targets, 1, 2)
           /\ progress[Len(progress)] = <<2, 5>>
           /\ result = FailuresUpTo(2)
    /\ CancelledAfterCallback(2) =>
           /\ processed = SubSeq(targets, 1, 1)
           /\ progress[Len(progress)] = <<1, 5>>
           /\ result = FailuresUpTo(1)

\* C9 witness: the flag was set after the callback (2, 5); the run returned
\* with two files processed, the second of which failed.
C9_Witness ==
    /\ CancelledAfterCallback(3)
    /\ Len(processed) = 2
    /\ fate[1] = "ok" /\ fate[2] = "decode"
    /\ result = <<"in/img2.png: cannot identify image file">>

\* C10: a decode, I/O or save failure on one target never aborts the run: it
\* is appended as one entry "<source path>: <description>", the file's
\* progress is still reported and every later target is still processed
\* (absent cancellation); the returned list has exactly one entry per failed
\* processed target, in processing order, and no target is retried.
C10_FailuresDoNotAbort ==
    pc # "idle" =>
        /\ Len(processed) <= Len(targets)
        /\ processed = SubSeq(targets, 1, Len(processed))
        /\ \A j, k \in 1 .. Len(processed) : processed[j] = processed[k] => j = k
        /\ errors = FailuresUpTo(Len(processed))
        /\ (pc = "loop" /\ progress_cb) => Len(progress) = Len(processed) + 1
        /\ pc = "returned" =>
               /\ result = errors
               /\ ~cancelled =>
                      /\ processed = targets
                      /\ progress_cb => progress[Len(progress)] = <<Len(targets), Len(targets)>>

\* C10 witness: an uncancelled run over three targets whose first and last
\* failed returned those two entries, the second target having been processed
\* in between.
C10_Witness ==
    /\ pc = "returned"
    /\ ~cancelled
    /\ progress_cb
    /\ fate = <<"decode", "ok", "save">>
    /\ processed = targets
    /\ result = <<"in/img1.png: cannot identify image file",
                  "in/img3.png: Permission denied">>

\* the output of every target is on disk
AllOutputsWritten ==
    \A k \in DOMAIN targets : out_path(targets[k]) \in written

\* C11: whenever process_targets returns an empty error list, the run was a
\* full success: every expanded target was processed and its output written.
C11_EmptyListMeansFullSuccess ==
    (pc = "returned" /\ result = <<>>) =>
        (processed = targets /\ AllOutputsWritten)

\* the flag was already true when is_cancelled() was queried before file j
\* (the query before file j follows the callback (j-1, total))
SetBeforeQuery(j) ==
    /\ cancel_at # NeverSet
    /\ \/ cancel_at[1] < j
       \/ cancel_at = <<j, "loop">>

\* the run left the loop through break
LeftByBreak == pc = "returned" /\ i < Len(targets)

\* C14: is_cancelled is queried exactly once before each file; if it returns
\* true before file i, file i and all later files are not processed, no further
\* progress is reported and no error is added, so the last reported done is
\* i-1 < total; conversely a run whose last reported done equals total
\* processed every target: the final done count compared to total tells
\* cancellation from completion.
C14_CancelCheckedBeforeEachFile ==
    (progress_cb /\ pc \notin {"idle", "start"}) =>
        LET last == progress[Len(progress)][1]
        IN  /\ queries = i + (IF LeftByBreak THEN 1 ELSE 0)
            /\ Len(processed) = i - (IF pc = "trim" THEN 1 ELSE 0)
            /\ i >= 1 => ~SetBeforeQuery(i)
            /\ LeftByBreak =>
                   /\ SetBeforeQuery(i + 1)
                   /\ processed = SubSeq(targets, 1, i)
                   /\ last = i /\ last < Len(targets)
                   /\ result = FailuresUpTo(i)
            /\ pc = "returned" =>
                   /\ last = Len(targets) <=> processed = targets
                   /\ last < Len(targets) <=> LeftByBreak

\* C14 witness: of 5 targets, the flag was true at the query before file 3;
\* the run returned with 2 files processed, 3 queries made and (2, 5) as the
\* last progress call.
C14_Witness ==
    /\ pc = "returned"
    /\ progress_cb
    /\ Len(targets) = 5
    /\ cancel_at = <<2, "report">>
    /\ queries = 3
    /\ Len(processed) = 2
    /\ progress[Len(progress)] = <<2, 5>>

\* ------------------------------------------------ claims on the expansion
Range(seq) == {seq[k] : k \in DOMAIN seq}
Occurrences(seq, x) == Cardinality({k \in DOMAIN seq : seq[k] = x})

\* C12: in every run, over any inputs (a directory tree that already holds a
\* Remake/ subdirectory included), no source target of the run is written:
\* every write goes to <dir of source>/Remake/<source filename>, and that path
\* is never one of the run's targets.
C12_SourcesNeverWritten ==
    \A p \in written :
        /\ \E k \in DOMAIN targets : p = out_path(targets[k])
        /\ p \notin Range(targets)

\* the candidate files whose name ends, whatever the case of its letters, with
\* one of .png .jpg .jpeg .bmp .gif .tiff .webp, read off their names
SupportedNames == {"in/a.png", "in/B.PNG", "in/Remake/a.png", "in/sub/c.Jpeg"}

\* the input names the file itself, or a directory above it
Covers(input, f) ==
    \/ input = f
    \/ \E d \in CandidateDirs : PathStr(d) = input /\ Under(d, split_path(f))

\* C13: expansion keeps exactly the existing files whose name ends,
\* case-insensitively, with a supported extension, once for each input that
\* names the file or a directory above it; a file with another extension
\* (notes.txt, or a file named png) is not counted in total, never processed
\* and never yields an error entry.
C13_OnlySupportedFilesAreTargets ==
    /\ {Str(e) : e \in SupportedExtChars} = SUPPORTED_EXTS
    /\ pc # "expand" =>
        /\ \A k \in DOMAIN targets : targets[k] \in CandidateStrs
        /\ \A f \in CandidateStrs :
               Occurrences(targets, f) =
                   IF f \in SupportedNames /\ fs[f] # "absent"
                   THEN Cardinality({k \in DOMAIN inputs : Covers(inputs[k], f)})
                   ELSE 0
        /\ \A k \in DOMAIN progress : progress[k][2] = Len(targets)
        /\ \A k \in DOMAIN processed : processed[k] \in SupportedNames
        /\ \A k \in DOMAIN errors :
               \E f \in SupportedNames, x \in Fates \ {"ok"} :
                   errors[k] = error_entry(f, Description(x))

\* C13 witness: the directory in/ holds all six candidate files, notes.txt
\* and png among them; the run over in/ returned with the four image files as
\* its targets, total 4, and one error entry, for the undecodable c.Jpeg.
C13_Witness ==
    /\ pc = "returned"
    /\ inputs = <<"in">>
    /\ \A f \in CandidateStrs : fs[f] # "absent"
    /\ fs["in/sub/c.Jpeg"] = "decode"
    /\ targets = <<"in/a.png", "in/B.PNG", "in/Remake/a.png", "in/sub/c.Jpeg">>
    /\ progress_cb
    /\ progress[Len(progress)] = <<4, 4>>
    /\ result = <<"in/sub/c.Jpeg: cannot identify image file">>

\* ------------------------------------------------------ claims on the window
\* the thread's finished / error signal has not been handled yet
Unhandled(t) ==
    \/ threads[t].at = "run"
    \/ \E k \in DOMAIN signal_queue : signal_queue[k][1] = t

\* C15: under any interleaving of start requests, cancel clicks, worker
\* execution and delivery of the queued finished / error signals, at most one
\* WorkerThread runs at a time, and while a started worker's finished / error
\* signal has not been handled the cancel button is enabled and the start
\* button disabled.
C15_OneWorkerAndButtonsFollowIt ==
    /\ Cardinality({t \in DOMAIN threads : isRunning(t)}) <= 1
    /\ (\E t \in DOMAIN threads : Unhandled(t)) => (btn_cancel /\ ~btn_start)

====
